---- MODULE Spec2Model ----
(***************************************************************************)
(* A model of the Sandbox of terrificjs (src/src/Sandbox.js): the mediator *)
(* between the modules and the application.                                *)
(*                                                                         *)
(* JavaScript values are modelled by strings that name them ("undefined",  *)
(* "null", "0", "''", "false", ...), arrays by sequences.  Every mediator  *)
(* operation is one action; the calls it delegates to the application and  *)
(* to the connectors are recorded, in order, in the variable calls, and    *)
(* what the operation hands back to its caller in the variable ret.        *)
(***************************************************************************)
EXTENDS Naturals, Sequences, FiniteSets

VARIABLES
    _config,      \* this._config: the configuration object
    _connectors,  \* this._connectors
    registry,     \* the application: identifiers that resolve to a module
    tid,          \* the DOM: the data-t-id attribute of every element
    parentOf,     \* the DOM: the parent of every element
    op,           \* the last operation called on the sandbox, with its arguments
    calls,        \* the calls that operation delegated, in order
    ret           \* what that operation returned or threw

vars == <<_config, _connectors, registry, tid, parentOf, op, calls, ret>>

-----------------------------------------------------------------------------
(* Bounds of the model *)

MaxConnectors == 2

-----------------------------------------------------------------------------
(* The JavaScript values the model distinguishes *)

Undefined == "undefined"

Null == "null"

\* the values ToBoolean maps to false
Falsy == {Undefined, Null, "0", "''", "false"}

\* a !== b, on values that are named by strings
StrictNotEqual(a, b) == a # b

\* what every object literal inherits from Object.prototype
ObjectPrototype == [toString |-> "function toString", constructor |-> "function Object"]

\* the configuration objects a sandbox is constructed with: a reference and
\* the own properties of the object it refers to
ConfigObjects ==
    { [ref |-> "config A",
       own |-> [retries |-> "0", title |-> "''", debug |-> "false", theme |-> Null,
                locale |-> "en", legacy |-> Undefined]] }

ParamNames == {"retries", "title", "debug", "theme", "locale", "legacy", "missing",
               "toString"}

\* config[name]: own property, else inherited property, else undefined
GetProperty(config, name) ==
    IF name \in DOMAIN config.own THEN config.own[name]
    ELSE IF name \in DOMAIN ObjectPrototype THEN ObjectPrototype[name]
    ELSE Undefined

-----------------------------------------------------------------------------
(* The DOM: two elements in document order, m1 in the body of the         *)
(* document and m2 inside m1; both carry the data-t-name marker.          *)

Elements == <<"m1", "m2">>

ElementSet == {Elements[i] : i \in 1..Len(Elements)}

HasNameMarker == {"m1", "m2"}

InitParent == [e \in ElementSet |-> IF e = "m1" THEN "body" ELSE "m1"]

\* the identifiers the application gives out, in this order
ModuleIds == <<"1", "2">>

IdSet == {ModuleIds[i] : i \in 1..Len(ModuleIds)}

RECURSIVE IsInclusiveDescendant(_, _, _)
IsInclusiveDescendant(e, root, par) ==
    IF e = root THEN TRUE
    ELSE IF par[e] \in ElementSet THEN IsInclusiveDescendant(par[e], root, par)
    ELSE FALSE

\* the document fragments: one more than there are elements, so that one
\* of them is always the parent of no element
Fragments == {"fragment 1", "fragment 2", "fragment 3"}

\* document.createDocumentFragment(): a new fragment, the parent of no element
CreateDocumentFragment(par) ==
    CHOOSE f \in Fragments : \A e \in ElementSet : par[e] # f

\* a scan that leaves the node where it is
LeaveInPlace(par, node) == par

\* fragment.appendChild(node) on the new fragment: the node leaves its parent
\* for the fragment
AppendToFragment(par, node) ==
    IF node \in ElementSet THEN [par EXCEPT ![node] = CreateDocumentFragment(par)]
    ELSE par

\* a scan of the descendants of node alone, as node.querySelectorAll makes it
QuerySelectorAllNameBelow(par, node) ==
    SelectSeq(Elements, LAMBDA e : /\ e \in HasNameMarker
                                   /\ e # node
                                   /\ IsInclusiveDescendant(e, node, par))

\* fragment.querySelectorAll('[data-t-name]') once node is the fragment's only
\* child: the marked elements among node and its descendants, in document order
QuerySelectorAllName(par, node) ==
    SelectSeq(Elements, LAMBDA e : e \in HasNameMarker /\ IsInclusiveDescendant(e, node, par))

\* ctx.getAttribute('data-t-id'): the attribute's value, null when it is missing
GetAttributeId(t, e) == t[e]


-----------------------------------------------------------------------------
(* Arguments, delegated calls and results *)

\* the values addModules and removeModules are called with
NodeArg(n) == [kind |-> "node", node |-> n, arr |-> <<>>]

ArrayArg(a) == [kind |-> "array", node |-> "", arr |-> a]

OtherArg(k) == [kind |-> k, node |-> "", arr |-> <<>>]

NoArg == OtherArg("none")

\* x instanceof Node
InstanceofNode(x) == x.kind = "node"

\* a test that takes every object for an array
IsArrayOrObject(x) == x.kind \in {"array", "object"}

\* a test that takes only an array with entries for an array
IsNonEmptyArray(x) == x.kind = "array" /\ x.arr # <<>>

\* Array.isArray(x)
IsArray(x) == x.kind = "array"

\* one delegated call: the function, what it is called on or with (a node,
\* an identifier, a connector), the module collection passed, the modules
\* it returned, the array bound to this (emit only), the argument list
\* received (emit only), whether the call threw, and the connectors the
\* callee added to the sandbox before it returned (emit only)
Call(fn, target, mods, returned) ==
    [fn |-> fn, target |-> target, mods |-> mods, returned |-> returned,
     thisArray |-> <<>>, args |-> <<>>, threw |-> FALSE, reentered |-> <<>>]

\* the call c when the callee throws
Failing(c) == [c EXCEPT !.threw = TRUE]

\* the call c when the callee calls addConnector(x) before it returns
Reentering(c, x) == [c EXCEPT !.reentered = <<x>>]

\* a looked-up module as a collection: empty when the lookup gave undefined
Found(module) == IF module = Undefined THEN <<>> ELSE <<module>>

Returned(val, mods) == [kind |-> "return", val |-> val, mods |-> mods, msg |-> <<>>]

Thrown(msg) == [kind |-> "throw", val |-> Undefined, mods |-> <<>>, msg |-> msg]

\* a failure raised by a collaborator (the application, a connector)
CollaboratorError == <<"collaborator error">>

Outcomes == {"return", "throw"}

\* an operation with its arguments; for a dispatch also the elements of
\* this._connectors when the call began
Operation(name, arg, key, origin, payload, connectors) ==
    [name |-> name, arg |-> arg, key |-> key, origin |-> origin, payload |-> payload,
     connectors |-> connectors]

-----------------------------------------------------------------------------
(* The application collaborator, as section 6 of the specification         *)
(* describes it                                                            *)

HandleOf == [i \in IdSet |-> IF i = "1" THEN "module 1" ELSE "module 2"]

\* getModuleById(id): the handle, or undefined
ApplicationGetModuleById(reg, id) ==
    IF id \in reg THEN HandleOf[id] ELSE Undefined

\* the identifier registerModules gives out next
NextId(t) == ModuleIds[Cardinality({e \in ElementSet : t[e] # Null}) + 1]

\* registerModules(ctx): every marked element of the subtree that carries no
\* identifier yet gets one and becomes a registered module
RECURSIVE RegisterLoop(_, _, _, _)
RegisterLoop(nodes, t, reg, modules) ==
    IF nodes = <<>> THEN [tid |-> t, registry |-> reg, modules |-> modules]
    ELSE IF t[Head(nodes)] # Null THEN RegisterLoop(Tail(nodes), t, reg, modules)
    ELSE LET id == NextId(t) IN
         RegisterLoop(Tail(nodes), [t EXCEPT ![Head(nodes)] = id], reg \cup {id},
                      Append(modules, HandleOf[id]))

ApplicationRegisterModules(t, reg, par, ctx) ==
    RegisterLoop(SelectSeq(Elements, LAMBDA e : e \in HasNameMarker
                                                /\ IsInclusiveDescendant(e, ctx, par)),
                 t, reg, <<>>)

\* unregisterModules(handles): the handles no longer resolve
ApplicationUnregisterModules(reg, modules) ==
    {i \in reg : \A k \in 1..Len(modules) : modules[k] # HandleOf[i]}

-----------------------------------------------------------------------------
(* Sandbox.prototype.addModules *)

\* addModules as it would be with start called on the still empty modules
\* array, before the registration
AddModulesRunStartFirst(ctx, t, reg, par, registerOutcome, startOutcome) ==
    IF InstanceofNode(ctx)
    THEN IF startOutcome = "throw"
         THEN [calls |-> <<Call("start", "", <<>>, <<>>)>>,
               ret |-> Thrown(CollaboratorError), tid |-> t, registry |-> reg]
         ELSE LET r == ApplicationRegisterModules(t, reg, par, ctx.node) IN
              [calls |-> <<Call("start", "", <<>>, <<>>),
                           Call("registerModules", ctx.node, <<>>, r.modules)>>,
               ret |-> IF registerOutcome = "throw" THEN Thrown(CollaboratorError)
                       ELSE Returned("array", r.modules),
               tid |-> r.tid, registry |-> r.registry]
    ELSE [calls |-> <<>>, ret |-> Returned("array", <<>>), tid |-> t, registry |-> reg]

\* addModules as it would be without the instanceof test
AddModulesRunUnguarded(ctx, t, reg, par, registerOutcome, startOutcome) ==
    LET r == ApplicationRegisterModules(t, reg, par, ctx.node) IN
    [calls |-> <<Call("registerModules", ctx.node, <<>>, r.modules),
                 Call("start", "", r.modules, <<>>)>>,
     ret |-> Returned("array", r.modules), tid |-> r.tid, registry |-> r.registry]

\* the outcome of addModules(ctx), given how registerModules and start end
AddModulesRun(ctx, t, reg, par, registerOutcome, startOutcome) ==
    IF InstanceofNode(ctx)
    THEN IF registerOutcome = "throw"
         THEN [calls |-> <<Failing(Call("registerModules", ctx.node, <<>>, <<>>))>>,
               ret |-> Thrown(CollaboratorError), tid |-> t, registry |-> reg]
         ELSE LET r == ApplicationRegisterModules(t, reg, par, ctx.node)
                  modules == r.modules
              IN  [calls |-> <<Call("registerModules", ctx.node, <<>>, modules),
                               IF startOutcome = "throw"
                               THEN Failing(Call("start", "", modules, <<>>))
                               ELSE Call("start", "", modules, <<>>)>>,
                   ret |-> IF startOutcome = "throw" THEN Thrown(CollaboratorError)
                           ELSE Returned("array", modules),
                   tid |-> r.tid, registry |-> r.registry]
    ELSE [calls |-> <<>>, ret |-> Returned("array", <<>>), tid |-> t, registry |-> reg]

AddModules(ctx, registerOutcome, startOutcome) ==
    LET r == AddModulesRun(ctx, tid, registry, parentOf, registerOutcome, startOutcome) IN
    /\ op' = Operation("addModules", ctx, "", "", <<>>, <<>>)
    /\ calls' = r.calls
    /\ ret' = r.ret
    /\ tid' = r.tid
    /\ registry' = r.registry
    /\ UNCHANGED <<_config, _connectors, parentOf>>

-----------------------------------------------------------------------------
(* Sandbox.prototype.getModuleById *)

GetModuleById(id) ==
    /\ op' = Operation("getModuleById", NoArg, id, "", <<>>, <<>>)
    /\ calls' = <<Call("getModuleById", id, <<>>,
                        Found(ApplicationGetModuleById(registry, id)))>>
    /\ ret' = Returned(ApplicationGetModuleById(registry, id), <<>>)
    /\ UNCHANGED <<_config, _connectors, registry, tid, parentOf>>

-----------------------------------------------------------------------------
(* Sandbox.prototype.removeModules *)

\* the forEach as it would be without the test of the module found
RECURSIVE CollectModulesUnchecked(_, _, _, _, _)
CollectModulesUnchecked(nodes, t, reg, tmpModules, log) ==
    IF nodes = <<>> THEN [tmpModules |-> tmpModules, calls |-> log]
    ELSE LET id == GetAttributeId(t, Head(nodes))
             module == ApplicationGetModuleById(reg, id)
         IN  CollectModulesUnchecked(Tail(nodes), t, reg, Append(tmpModules, module),
                                     Append(log, Call("getModuleById", id, <<>>,
                                                      Found(module))))

\* the forEach over the marked elements: looks each identifier up and
\* collects the modules found
RECURSIVE CollectModules(_, _, _, _, _)
CollectModules(nodes, t, reg, tmpModules, log) ==
    IF nodes = <<>> THEN [tmpModules |-> tmpModules, calls |-> log]
    ELSE LET id == GetAttributeId(t, Head(nodes)) IN
         IF StrictNotEqual(id, Undefined)
         THEN LET module == ApplicationGetModuleById(reg, id)
                  log2 == Append(log, Call("getModuleById", id, <<>>, Found(module)))
              IN  IF module \notin Falsy
                  THEN CollectModules(Tail(nodes), t, reg, Append(tmpModules, module), log2)
                  ELSE CollectModules(Tail(nodes), t, reg, tmpModules, log2)
         ELSE CollectModules(Tail(nodes), t, reg, tmpModules, log)

\* unregisterModules first and stop after it
UnregisterAndStop(modules, reg, log, stopOutcome, unregisterOutcome) ==
    IF unregisterOutcome = "throw"
    THEN [calls |-> Append(log, Call("unregisterModules", "", modules, <<>>)),
          ret |-> Thrown(CollaboratorError), registry |-> reg]
    ELSE [calls |-> log \o <<Call("unregisterModules", "", modules, <<>>),
                             Call("stop", "", modules, <<>>)>>,
          ret |-> IF stopOutcome = "throw" THEN Thrown(CollaboratorError)
                  ELSE Returned("this", <<>>),
          registry |-> ApplicationUnregisterModules(reg, modules)]

\* stop and unregisterModules as they would be with the failure of stop caught
StopAndUnregisterCatching(modules, reg, log, stopOutcome, unregisterOutcome) ==
    LET stop == IF stopOutcome = "throw" THEN Failing(Call("stop", "", modules, <<>>))
                ELSE Call("stop", "", modules, <<>>)
    IN  IF unregisterOutcome = "throw"
        THEN [calls |-> log \o <<stop, Failing(Call("unregisterModules", "", modules, <<>>))>>,
              ret |-> Thrown(CollaboratorError), registry |-> reg]
        ELSE [calls |-> log \o <<stop, Call("unregisterModules", "", modules, <<>>)>>,
              ret |-> Returned("this", <<>>),
              registry |-> ApplicationUnregisterModules(reg, modules)]

\* stop, then unregisterModules, with the same collection
StopAndUnregister(modules, reg, log, stopOutcome, unregisterOutcome) ==
    IF stopOutcome = "throw"
    THEN [calls |-> Append(log, Failing(Call("stop", "", modules, <<>>))),
          ret |-> Thrown(CollaboratorError), registry |-> reg]
    ELSE IF unregisterOutcome = "throw"
    THEN [calls |-> log \o <<Call("stop", "", modules, <<>>),
                             Failing(Call("unregisterModules", "", modules, <<>>))>>,
          ret |-> Thrown(CollaboratorError), registry |-> reg]
    ELSE [calls |-> log \o <<Call("stop", "", modules, <<>>),
                             Call("unregisterModules", "", modules, <<>>)>>,
          ret |-> Returned("this", <<>>),
          registry |-> ApplicationUnregisterModules(reg, modules)]

\* the outcome of removeModules(modules), given how stop and unregisterModules end
RemoveModulesRun(modules, t, reg, par, stopOutcome, unregisterOutcome) ==
    LET isNode == InstanceofNode(modules)
        par2 == IF isNode THEN AppendToFragment(par, modules.node) ELSE par
        scan == IF isNode
                THEN CollectModules(QuerySelectorAllName(par2, modules.node), t, reg, <<>>, <<>>)
                ELSE [tmpModules |-> <<>>, calls |-> <<>>]
        modules2 == IF isNode THEN ArrayArg(scan.tmpModules) ELSE modules
    IN  IF IsArray(modules2)
        THEN LET r == StopAndUnregister(modules2.arr, reg, scan.calls,
                                        stopOutcome, unregisterOutcome)
             IN  [calls |-> r.calls, ret |-> r.ret, registry |-> r.registry,
                  parentOf |-> par2]
        ELSE [calls |-> scan.calls, ret |-> Returned("this", <<>>), registry |-> reg,
              parentOf |-> par2]

RemoveModules(modules, stopOutcome, unregisterOutcome) ==
    LET r == RemoveModulesRun(modules, tid, registry, parentOf,
                              stopOutcome, unregisterOutcome) IN
    /\ op' = Operation("removeModules", modules, "", "", <<>>, <<>>)
    /\ calls' = r.calls
    /\ ret' = r.ret
    /\ registry' = r.registry
    /\ parentOf' = r.parentOf
    /\ UNCHANGED <<_config, _connectors, tid>>

-----------------------------------------------------------------------------
(* Sandbox.prototype.getConfig and getConfigParam *)

\* getConfig as it would be returning a copy of the configuration
GetConfigCopy ==
    /\ op' = Operation("getConfig", NoArg, "", "", <<>>, <<>>)
    /\ calls' = <<>>
    /\ ret' = Returned("copy of " \o _config.ref, <<>>)
    /\ UNCHANGED <<_config, _connectors, registry, tid, parentOf>>

\* return this._config
GetConfig ==
    /\ op' = Operation("getConfig", NoArg, "", "", <<>>, <<>>)
    /\ calls' = <<>>
    /\ ret' = Returned(_config.ref, <<>>)
    /\ UNCHANGED <<_config, _connectors, registry, tid, parentOf>>

\* the test as it would be on the truth value of the parameter
ConfigParamIsTruthy(config, name) == GetProperty(config, name) \notin Falsy

\* the test that decides between returning and throwing
ConfigParamExists(config, name) == StrictNotEqual(GetProperty(config, name), Undefined)

\* a message that does not name the parameter
ConfigParamMessageUnnamed(name) == <<"The config param does not exist">>

\* 'The config param ' + name + ' does not exist'
ConfigParamMessage(name) == <<"The config param ", name, " does not exist">>

GetConfigParamRun(config, name) ==
    IF ConfigParamExists(config, name)
    THEN Returned(GetProperty(config, name), <<>>)
    ELSE Thrown(ConfigParamMessage(name))

GetConfigParam(name) ==
    /\ op' = Operation("getConfigParam", NoArg, name, "", <<>>, <<>>)
    /\ calls' = <<>>
    /\ ret' = GetConfigParamRun(_config, name)
    /\ UNCHANGED <<_config, _connectors, registry, tid, parentOf>>

-----------------------------------------------------------------------------
(* Sandbox.prototype.addConnector and dispatch *)

\* the connectors: e1 and e2 are two objects with the same content, e0 is
\* a connector of another content that is never added
Endpoints == {"e1", "e2"}

Origins == Endpoints \cup {"e0"}

\* the connectors a dispatch is called with: e2 is to e1 as e1 is to e2
DispatchOrigins == {"e0", "e1"}

ContentOf == [e \in Origins |-> IF e = "e0" THEN "content B" ELSE "content A"]

\* a push that leaves out a connector the array already holds
PushConnectorOnce(connectors, connector) ==
    IF \E k \in 1..Len(connectors) : connectors[k] = connector THEN connectors
    ELSE Append(connectors, connector)

\* a push at the front of the array
PushConnectorFirst(connectors, connector) == <<connector>> \o connectors

\* this._connectors.push(connector)
PushConnector(connectors, connector) == Append(connectors, connector)

AddConnector(connector) ==
    /\ Len(_connectors) < MaxConnectors
    /\ op' = Operation("addConnector", NoArg, "", connector, <<>>, <<>>)
    /\ calls' = <<>>
    /\ ret' = Returned("this", <<>>)
    /\ _connectors' = PushConnector(_connectors, connector)
    /\ UNCHANGED <<_config, registry, tid, parentOf>>

\* the payloads a dispatch is called with, after the connector argument
Payloads == {<<>>, <<"t.event", "data">>}

\* [].slice.call(arguments, 1)
SliceFromOne(arguments) == SubSeq(arguments, 2, Len(arguments))

\* a comparison of the contents of the two connectors
IsOtherContent(entry, connector) == ContentOf[entry] # ContentOf[connector]

\* connectors[i] !== connector: two references to different objects
IsOtherConnector(entry, connector) == entry # connector

\* connectors[i].emit.apply(args): apply takes the value for this first and
\* the argument list second, so emit runs with this bound to the args array
\* and receives no arguments
EmitApply(entry, args) ==
    [fn |-> "emit", target |-> entry, mods |-> <<>>, returned |-> <<>>,
     thisArray |-> args, args |-> <<>>, threw |-> FALSE, reentered |-> <<>>]

\* what an emit does when it is invoked: it returns, it throws, or it calls
\* back into the sandbox to add a connector before it returns
EmitOutcomes == {"return", "throw", "addConnector"}

\* the loop as it would be running from the last connector to the first
RECURSIVE DispatchLoopBackwards(_, _, _, _, _, _, _, _)
DispatchLoopBackwards(connectors, i, len, connector, args, emits, added, log) ==
    IF i > len THEN [connectors |-> connectors, calls |-> log, thrown |-> FALSE]
    ELSE LET k == len + 1 - i IN
         IF IsOtherConnector(connectors[k], connector)
         THEN LET emit == EmitApply(connectors[k], args) IN
              IF emits[k] = "throw"
              THEN [connectors |-> connectors, calls |-> Append(log, Failing(emit)),
                    thrown |-> TRUE]
              ELSE IF emits[k] = "addConnector"
              THEN DispatchLoopBackwards(PushConnector(connectors, added), i + 1, len,
                                         connector, args, emits, added,
                                         Append(log, Reentering(emit, added)))
              ELSE DispatchLoopBackwards(connectors, i + 1, len, connector, args, emits,
                                         added, Append(log, emit))
         ELSE DispatchLoopBackwards(connectors, i + 1, len, connector, args, emits,
                                    added, log)

\* the loop as it would be reading connectors.length at every turn; an emit
\* on a connector added meanwhile returns
RECURSIVE DispatchLoopLiveLength(_, _, _, _, _, _, _, _)
DispatchLoopLiveLength(connectors, i, len, connector, args, emits, added, log) ==
    IF i > Len(connectors)
    THEN [connectors |-> connectors, calls |-> log, thrown |-> FALSE]
    ELSE IF IsOtherConnector(connectors[i], connector)
    THEN LET emit == EmitApply(connectors[i], args)
             outcome == IF i \in DOMAIN emits THEN emits[i] ELSE "return"
         IN  IF outcome = "throw"
             THEN [connectors |-> connectors, calls |-> Append(log, Failing(emit)),
                   thrown |-> TRUE]
             ELSE IF outcome = "addConnector"
             THEN DispatchLoopLiveLength(PushConnector(connectors, added), i + 1, len,
                                         connector, args, emits, added,
                                         Append(log, Reentering(emit, added)))
             ELSE DispatchLoopLiveLength(connectors, i + 1, len, connector, args, emits,
                                         added, Append(log, emit))
    ELSE DispatchLoopLiveLength(connectors, i + 1, len, connector, args, emits, added,
                                log)

\* the for loop of dispatch from index i on; len is the length read before
\* the loop, connectors the array itself
RECURSIVE DispatchLoop(_, _, _, _, _, _, _, _)
DispatchLoop(connectors, i, len, connector, args, emits, added, log) ==
    IF i > len THEN [connectors |-> connectors, calls |-> log, thrown |-> FALSE]
    ELSE IF IsOtherConnector(connectors[i], connector)
    THEN LET emit == EmitApply(connectors[i], args) IN
         IF emits[i] = "throw"
         THEN [connectors |-> connectors, calls |-> Append(log, Failing(emit)),
               thrown |-> TRUE]
         ELSE IF emits[i] = "addConnector"
         THEN DispatchLoop(PushConnector(connectors, added), i + 1, len, connector,
                           args, emits, added, Append(log, Reentering(emit, added)))
         ELSE DispatchLoop(connectors, i + 1, len, connector, args, emits, added,
                           Append(log, emit))
    ELSE DispatchLoop(connectors, i + 1, len, connector, args, emits, added, log)

\* the outcome of dispatch(connector, payload...), given what each emit does
DispatchRun(connectors, connector, payload, emits, added) ==
    LET arguments == <<connector>> \o payload
        args == SliceFromOne(arguments)
    IN  DispatchLoop(connectors, 1, Len(connectors), connector, args, emits, added, <<>>)

Dispatch(connector, payload, emits, added) ==
    LET r == DispatchRun(_connectors, connector, payload, emits, added) IN
    /\ Len(r.connectors) <= MaxConnectors
    /\ op' = Operation("dispatch", NoArg, "", connector, payload, _connectors)
    /\ calls' = r.calls
    /\ ret' = IF r.thrown THEN Thrown(CollaboratorError) ELSE Returned("this", <<>>)
    /\ _connectors' = r.connectors
    /\ UNCHANGED <<_config, registry, tid, parentOf>>

-----------------------------------------------------------------------------
(* The sandbox and its callers *)

\* new Sandbox(application, config)
Init ==
    /\ _config \in ConfigObjects
    /\ _connectors = <<>>
    /\ registry = {}
    /\ tid = [e \in ElementSet |-> Null]
    /\ parentOf = InitParent
    /\ op = Operation("new Sandbox", NoArg, "", "", <<>>, <<>>)
    /\ calls = <<>>
    /\ ret = Returned("this", <<>>)

NonNodeNonArrayArgs == {OtherArg(k) : k \in {"undefined", "string", "object"}}

HandleArrays ==
    {<<>>, <<"module 1">>, <<"module 2", "module 1">>}

NodeArgs == {NodeArg(e) : e \in ElementSet}

ArrayArgs == {ArrayArg(a) : a \in HandleArrays}

LookupIds == IdSet \cup {"9"}

\* the connector an emit adds when it calls back into the sandbox
ReentrantConnectors == {"e2"}

\* what the emit of each of n connectors does; the loop ends at the first
\* emit that throws, so what the later ones would do is left at "return"
EmitScripts(n) ==
    {emits \in [1..n -> EmitOutcomes] :
        \A i \in 1..n, j \in 1..n : (i < j /\ emits[i] = "throw") => emits[j] = "return"}

Next ==
    \/ \E ctx \in NodeArgs \cup NonNodeNonArrayArgs \cup {ArrayArg(<<>>)},
          o1 \in Outcomes, o2 \in Outcomes : AddModules(ctx, o1, o2)
    \/ \E m \in NodeArgs \cup ArrayArgs \cup NonNodeNonArrayArgs,
          o1 \in Outcomes, o2 \in Outcomes : RemoveModules(m, o1, o2)
    \/ \E id \in LookupIds : GetModuleById(id)
    \/ GetConfig
    \/ \E name \in ParamNames : GetConfigParam(name)
    \/ \E e \in Endpoints : AddConnector(e)
    \/ \E e \in DispatchOrigins, p \in Payloads, x \in ReentrantConnectors,
          emits \in EmitScripts(Len(_connectors)) : Dispatch(e, p, emits, x)

Spec == Init /\ [][Next]_vars

-----------------------------------------------------------------------------
(* Helpers of the properties *)

\* how many entries of the sequence q are x
Count(q, x) == Cardinality({k \in 1..Len(q) : q[k] = x})

\* the delegated calls of the last operation that went to one of the functions fns
CallsTo(fns) == SelectSeq(calls, LAMBDA c : c.fn \in fns)

\* the targets of a sequence of calls, in order
Targets(q) == [k \in 1..Len(q) |-> q[k].target]

\* the modules a sequence of lookups returned, in order
RECURSIVE ReturnedBy(_)
ReturnedBy(q) == IF q = <<>> THEN <<>> ELSE Head(q).returned \o ReturnedBy(Tail(q))

\* the entries of the connectors that are not the object origin, in order
OthersThan(connectors, origin) == SelectSeq(connectors, LAMBDA e : e # origin)

IsPrefix(a, b) == Len(a) <= Len(b) /\ a = SubSeq(b, 1, Len(a))

\* the call c without the mark of its failure
Unmarked(c) == [c EXCEPT !.threw = FALSE]

-----------------------------------------------------------------------------
(* C1 *)

\* C1: addModules(ctx) with ctx a Node calls registerModules(ctx) first and
\* nothing before it; unless registerModules fails it then calls start once
\* with the very collection registerModules returned; no other call is
\* delegated, and when addModules returns it returns that same collection.
C1_AddModulesRegistersThenStarts ==
    (op.name = "addModules" /\ InstanceofNode(op.arg)) =>
        /\ Len(calls) \in {1, 2}
        /\ calls[1].fn = "registerModules"
        /\ calls[1].target = op.arg.node
        /\ Len(calls) = 1 => ret.kind = "throw"
        /\ Len(calls) = 2 => /\ calls[2].fn = "start"
                             /\ calls[2].mods = calls[1].returned
        /\ ret.kind = "return" => /\ Len(calls) = 2
                                  /\ ret.mods = calls[1].returned

C1_Witness ==
    /\ op.name = "addModules"
    /\ InstanceofNode(op.arg)
    /\ ret.kind = "return"
    /\ Len(ret.mods) = 2
    /\ calls[2].mods = ret.mods

-----------------------------------------------------------------------------
(* C2 *)

\* C2: removeModules(collection) calls stop with that collection first and,
\* unless stop fails, unregisterModules with the same collection next, each
\* exactly once; unregisterModules is never called without stop before it.
C2_StopThenUnregister ==
    (op.name = "removeModules" /\ IsArray(op.arg)) =>
        /\ Len(calls) \in {1, 2}
        /\ Unmarked(calls[1]) = Call("stop", "", op.arg.arr, <<>>)
        /\ Len(calls) = 1 => ret.kind = "throw"
        /\ Len(calls) = 2 =>
               Unmarked(calls[2]) = Call("unregisterModules", "", op.arg.arr, <<>>)
        /\ ret.kind = "return" => Len(calls) = 2

C2_Witness ==
    /\ op.name = "removeModules"
    /\ IsArray(op.arg)
    /\ Len(op.arg.arr) = 2
    /\ ret.kind = "return"
    /\ Len(calls) = 2

-----------------------------------------------------------------------------
(* C3 *)

\* C3: a connector e that was added once receives, from a dispatch with
\* another origin that returns, exactly one emit call, and the arguments of
\* that call are the payload of the dispatch.
C3_EmitReceivesPayload ==
    (op.name = "dispatch" /\ ret.kind = "return") =>
        \A e \in Endpoints :
            (e # op.origin /\ Count(op.connectors, e) = 1) =>
                \E k \in 1..Len(calls) :
                    /\ calls[k].fn = "emit"
                    /\ calls[k].target = e
                    /\ calls[k].args = op.payload
                    /\ \A j \in 1..Len(calls) : calls[j].target = e => j = k

-----------------------------------------------------------------------------
(* C4 *)

\* C4: in a dispatch the origin receives no emit call, however often it was
\* added, and the entries that are other objects than the origin are not
\* left out: the emit calls go to them in turn, to all of them when the
\* dispatch returns.
C4_OriginExcludedByIdentity ==
    op.name = "dispatch" =>
        /\ \A k \in 1..Len(calls) : calls[k].fn = "emit" /\ calls[k].target # op.origin
        /\ IsPrefix(Targets(calls), OthersThan(op.connectors, op.origin))
        /\ ret.kind = "return" => Targets(calls) = OthersThan(op.connectors, op.origin)

C4_Witness ==
    /\ op.name = "dispatch"
    /\ ret.kind = "return"
    /\ Count(op.connectors, op.origin) = 1
    /\ \E e \in Endpoints : e # op.origin /\ ContentOf[e] = ContentOf[op.origin]
                            /\ Targets(calls) = <<e>>

-----------------------------------------------------------------------------
(* C5 *)

\* C5 as stated: for every key the configuration holds, getConfigParam
\* returns the value stored under it and does not throw.
C5_EveryPresentKeyIsReturned ==
    (op.name = "getConfigParam" /\ op.key \in DOMAIN _config.own) =>
        ret = Returned(_config.own[op.key], <<>>)

\* C5: for every key the configuration holds with a value other than
\* undefined, getConfigParam returns that value and does not throw, also
\* when the value is 0, the empty string, false or null; a key that holds
\* undefined is answered like a missing key, with the error.
C5_DefinedKeyIsReturned ==
    (op.name = "getConfigParam" /\ op.key \in DOMAIN _config.own) =>
        IF _config.own[op.key] # Undefined
        THEN ret = Returned(_config.own[op.key], <<>>)
        ELSE ret.kind = "throw"

C5_Witness ==
    /\ op.name = "getConfigParam"
    /\ op.key \in DOMAIN _config.own
    /\ _config.own[op.key] \in {"0", "''", "false"}
    /\ ret = Returned(_config.own[op.key], <<>>)

-----------------------------------------------------------------------------
(* C6 *)

-----------------------------------------------------------------------------
(* C7 *)

\* C7: addModules with an argument that is not a Node (a plain value, an
\* array, nothing) returns an empty collection, throws nothing, delegates no
\* call and leaves the sandbox, the registry and the DOM as they were.
C7_NonNodeIsNoOp ==
    [][(op'.name = "addModules" /\ op'.arg.kind # "node") =>
        /\ ret' = Returned("array", <<>>)
        /\ calls' = <<>>
        /\ UNCHANGED <<_config, _connectors, registry, tid, parentOf>>]_vars

C7_Witness ==
    /\ op.name = "addModules"
    /\ op.arg.kind = "string"
    /\ ret = Returned("array", <<>>)
    /\ calls = <<>>
    /\ \E e \in ElementSet : tid[e] # Null

-----------------------------------------------------------------------------
(* C8 *)

\* the marked elements of the subtree of root, in document order
MarkedElementsOf(root) ==
    SelectSeq(Elements, LAMBDA e : e \in HasNameMarker
                                   /\ IsInclusiveDescendant(e, root, parentOf))

\* the identifier markers the elements of q carry, in order
RECURSIVE IdentifiersOf(_)
IdentifiersOf(q) ==
    IF q = <<>> THEN <<>>
    ELSE (IF tid[Head(q)] # Null THEN <<tid[Head(q)]>> ELSE <<>>) \o IdentifiersOf(Tail(q))

\* C8: removeModules(S) with S a Node looks up the identifier markers of the
\* marked elements of S in document order; the collection it hands to stop
\* and to unregisterModules is the sequence of the modules those lookups
\* returned, identifiers that do not resolve adding nothing; the scan throws
\* nothing, and stop and unregisterModules are each called once with that
\* collection (unregisterModules unless stop fails).
C8_SubtreeCollection ==
    (op.name = "removeModules" /\ InstanceofNode(op.arg)) =>
        LET lookups == SelectSeq(calls, LAMBDA c : c.fn = "getModuleById" /\ c.target # Null)
            collection == ReturnedBy(lookups)
            rest == CallsTo({"stop", "unregisterModules"})
        IN  /\ Targets(lookups) = IdentifiersOf(MarkedElementsOf(op.arg.node))
            /\ Len(rest) \in {1, 2}
            /\ Unmarked(rest[1]) = Call("stop", "", collection, <<>>)
            /\ Len(rest) = 2 =>
                   Unmarked(rest[2]) = Call("unregisterModules", "", collection, <<>>)
            /\ Len(rest) = 1 => ret.kind = "throw"
            /\ calls = CallsTo({"getModuleById"}) \o rest

C8_Witness ==
    /\ op.name = "removeModules"
    /\ InstanceofNode(op.arg)
    /\ ret.kind = "return"
    /\ Len(IdentifiersOf(MarkedElementsOf(op.arg.node))) = 2
    /\ Len(calls[Len(calls)].mods) = 1

-----------------------------------------------------------------------------
(* C9 *)

\* C9: addConnector never drops a connector it is given, so the connector
\* is in the list once more after every call; and a dispatch that returns
\* has called emit on every connector other than the origin as many times
\* as the connector was in the list when the dispatch began.
C9_NoDeduplication ==
    [][/\ op'.name = "addConnector" =>
            Count(_connectors', op'.origin) = Count(_connectors, op'.origin) + 1
       /\ (op'.name = "dispatch" /\ ret'.kind = "return") =>
            \A e \in Endpoints :
                e # op'.origin =>
                    Count(Targets(calls'), e) = Count(_connectors, e)]_vars

C9_Witness ==
    /\ op.name = "dispatch"
    /\ ret.kind = "return"
    /\ \E e \in Endpoints : /\ e # op.origin
                            /\ Count(op.connectors, e) = 2
                            /\ Count(Targets(calls), e) = 2

-----------------------------------------------------------------------------
(* C10 *)

\* C10: in a dispatch emit is invoked on every connector other than the
\* origin that was in the list when the dispatch began, also on those that
\* come after a connector whose emit failed.
C10_EmitFailureIsIsolated ==
    op.name = "dispatch" =>
        Targets(calls) = OthersThan(op.connectors, op.origin)

-----------------------------------------------------------------------------
(* C11 *)

\* C11: removeModules with an argument that is neither a Node nor a
\* collection (absent, a string, a plain object) delegates no call to the
\* application (no stop, no unregisterModules, no getModuleById), raises no
\* error, leaves the sandbox, the registry and the document as they were and
\* returns the sandbox itself.
C11_RemoveModulesOtherIsNoOp ==
    [][(op'.name = "removeModules" /\ op'.arg.kind \notin {"node", "array"}) =>
          /\ calls' = <<>>
          /\ ret' = Returned("this", <<>>)
          /\ UNCHANGED <<_config, _connectors, registry, tid, parentOf>>]_vars

\* removeModules was called with a plain object while a module was
\* registered and a connector was attached
C11_Witness ==
    /\ op.name = "removeModules"
    /\ op.arg = OtherArg("object")
    /\ registry # {}
    /\ _connectors # <<>>
    /\ ret = Returned("this", <<>>)

-----------------------------------------------------------------------------
(* C12 *)

\* C12: addConnector puts the connector behind all the connectors added
\* before it, and a dispatch invokes emit on the connectors other than the
\* origin in that order, the order in which they were added: the emits made
\* go, one for one, to the first connectors of the list without the origin,
\* and to all of them when the dispatch returns.
C12_EmitInOrderOfAddition ==
    [][/\ op'.name = "addConnector" =>
            /\ Len(_connectors') = Len(_connectors) + 1
            /\ SubSeq(_connectors', 1, Len(_connectors)) = _connectors
            /\ _connectors'[Len(_connectors')] = op'.origin
       /\ op'.name = "dispatch" =>
            /\ IsPrefix(Targets(calls'), OthersThan(_connectors, op'.origin))
            /\ ret'.kind = "return" =>
                   Targets(calls') = OthersThan(_connectors, op'.origin)]_vars

\* a dispatch from a connector that was not added relayed to e1 and then to
\* e2, e1 having been added before e2
C12_Witness ==
    /\ op.name = "dispatch"
    /\ op.origin = "e0"
    /\ op.connectors = <<"e1", "e2">>
    /\ ret.kind = "return"
    /\ Targets(calls) = <<"e1", "e2">>

-----------------------------------------------------------------------------
(* C13 *)

\* the delegated calls of the last operation to the function fn that failed
FailedCallsTo(fn) == SelectSeq(calls, LAMBDA c : c.fn = fn /\ c.threw)

\* C13: a failure of the application is not caught. When registerModules
\* fails inside addModules, start is not invoked and addModules ends with
\* that failure; when stop fails inside removeModules, unregisterModules is
\* not invoked and removeModules ends with that failure instead of returning
\* the sandbox.
C13_ApplicationFailurePropagates ==
    /\ (op.name = "addModules" /\ FailedCallsTo("registerModules") # <<>>) =>
          /\ CallsTo({"start"}) = <<>>
          /\ ret = Thrown(CollaboratorError)
    /\ (op.name = "removeModules" /\ FailedCallsTo("stop") # <<>>) =>
          /\ CallsTo({"unregisterModules"}) = <<>>
          /\ ret = Thrown(CollaboratorError)
          /\ calls[Len(calls)].fn = "stop"

\* stop failed in a removeModules of a subtree from which a module was
\* collected
C13_Witness ==
    /\ op.name = "removeModules"
    /\ InstanceofNode(op.arg)
    /\ FailedCallsTo("stop") # <<>>
    /\ calls[Len(calls)].mods # <<>>
    /\ ret.kind = "throw"

-----------------------------------------------------------------------------
(* C14 *)

\* C14: in a removeModules of a subtree no lookup is made for a marked
\* element that carries no identifier, so every getModuleById call has the
\* identifier of an element as its argument, never the null that
\* getAttribute gives for a missing attribute; and such an element adds no
\* module to the collection.
C14_NoLookupWithoutIdentifier ==
    (op.name = "removeModules" /\ InstanceofNode(op.arg)) =>
        /\ \A k \in 1..Len(calls) :
              calls[k].fn = "getModuleById" => calls[k].target # Null
        /\ \A k \in 1..Len(calls) :
              (calls[k].fn = "getModuleById" /\ calls[k].target = Null) =>
                   calls[k].returned = <<>>

-----------------------------------------------------------------------------
(* C15 *)

\* the connectors the emits of a sequence of calls added, in order
RECURSIVE ReenteredBy(_)
ReenteredBy(q) == IF q = <<>> THEN <<>> ELSE Head(q).reentered \o ReenteredBy(Tail(q))

\* C15: the sequence of connectors only grows at its end. It is empty at
\* construction; addConnector(e) appends e behind the entries there are;
\* addModules, removeModules, getModuleById, getConfig and getConfigParam
\* leave it as it is; dispatch itself writes nothing to it, so after a
\* dispatch it is longer only by the connectors that emits added by calling
\* addConnector, each appended at the end; the sequence before any step is
\* an initial part of the sequence after it.
C15_ConnectorsAppendOnly ==
    /\ _connectors = <<>>
    /\ [][/\ op'.name = "addConnector" => _connectors' = Append(_connectors, op'.origin)
          /\ op'.name = "dispatch" => _connectors' = _connectors \o ReenteredBy(calls')
          /\ op'.name \notin {"addConnector", "dispatch"} => _connectors' = _connectors
          /\ IsPrefix(_connectors, _connectors')]_vars

\* a lookup, a removal or a read of the configuration made while two
\* connectors were attached, the second added behind the first
C15_Witness ==
    /\ op.name \in {"addModules", "removeModules", "getModuleById", "getConfigParam"}
    /\ _connectors = <<"e2", "e1">>

-----------------------------------------------------------------------------
(* C16 *)

\* C16: the sandbox holds one of the configuration objects it can be
\* constructed with, no operation replaces that reference or writes a key
\* of the object, a failing getConfigParam included, and getConfig returns
\* that very object, whatever was called before it.
C16_ConfigIsNeverReplaced ==
    /\ _config \in ConfigObjects
    /\ [][/\ _config' = _config
          /\ op'.name = "getConfig" =>
                (ret' = Returned(_config.ref, <<>>) /\ calls' = <<>>)]_vars

\* getConfig returned the configuration after modules were registered and
\* a connector was attached
C16_Witness ==
    /\ op.name = "getConfig"
    /\ ret.val = _config.ref
    /\ registry # {}
    /\ _connectors # <<>>

-----------------------------------------------------------------------------
(* C17 *)

\* C17: a dispatch relays only to the connectors that were attached when it
\* began. A connector x that an emit adds by calling addConnector during
\* the dispatch is appended to the sequence but gets no emit from that
\* dispatch: no connector gets more emits than it had entries at the start,
\* and the dispatch makes no more emits than there were entries other than
\* the origin. The addition does not cut the iteration short: a dispatch
\* that returns has relayed to every connector present at its start. And x
\* is relayed to by a dispatch that begins afterwards and returns, unless x
\* is its origin.
C17_RelayOnlyToConnectorsAtStart ==
    [][op'.name = "dispatch" =>
          /\ _connectors' = _connectors \o ReenteredBy(calls')
          /\ Len(calls') <= Len(OthersThan(_connectors, op'.origin))
          /\ \A e \in Endpoints : Count(Targets(calls'), e) <= Count(_connectors, e)
          /\ ret'.kind = "return" =>
                \A e \in Endpoints \ {op'.origin} :
                    Count(Targets(calls'), e) = Count(_connectors, e)
          /\ (op.name = "dispatch" /\ ret'.kind = "return") =>
                \A k \in 1..Len(ReenteredBy(calls)) :
                    LET x == ReenteredBy(calls)[k] IN
                    x # op'.origin => Count(Targets(calls'), x) >= 1]_vars

\* a dispatch relayed to e1 alone, whose emit added e2 before it returned:
\* e2 was appended and got no emit
C17_Witness ==
    /\ op.name = "dispatch"
    /\ op.connectors = <<"e1">>
    /\ ret.kind = "return"
    /\ ReenteredBy(calls) = <<"e2">>
    /\ Targets(calls) = <<"e1">>
    /\ _connectors = <<"e1", "e2">>

-----------------------------------------------------------------------------
(* C18 *)

\* C18: removeModules(n) with n a Node moves n into a document fragment
\* that was created for this call and so had no child before: after the
\* call the parent of n is that fragment and not the parent n had before,
\* while every other element keeps its parent. This holds whether or not a
\* module of the subtree resolves and however stop and unregisterModules end.
C18_NodeMovesIntoFreshFragment ==
    [][(op'.name = "removeModules" /\ op'.arg.kind = "node") =>
          LET n == op'.arg.node IN
          /\ parentOf'[n] \in Fragments
          /\ parentOf'[n] # parentOf[n]
          /\ \A e \in ElementSet : parentOf[e] # parentOf'[n]
          /\ \A e \in ElementSet \ {n} : parentOf'[e] = parentOf[e]]_vars

\* removeModules(m2) found no module in the subtree of m2 and delegated an
\* empty collection; m2 is in a fragment and no longer a child of m1
C18_Witness ==
    /\ op.name = "removeModules"
    /\ op.arg = NodeArg("m2")
    /\ ReturnedBy(CallsTo({"getModuleById"})) = <<>>
    /\ CallsTo({"stop"}) # <<>>
    /\ parentOf["m2"] \in Fragments
    /\ parentOf["m1"] = "body"

-----------------------------------------------------------------------------
(* C19 *)

\* C19: removeModules delegates even when there is nothing to remove. Given
\* an empty array, or a Node in whose subtree no marked element resolves to a
\* module, it calls stop once with an empty collection and, unless stop
\* fails, then unregisterModules once with an empty collection; stop and
\* unregisterModules are called no further time.
C19_EmptyCollectionIsDelegated ==
    (/\ op.name = "removeModules"
     /\ \/ op.arg = ArrayArg(<<>>)
        \/ InstanceofNode(op.arg) /\ ReturnedBy(CallsTo({"getModuleById"})) = <<>>) =>
        LET delegated == CallsTo({"stop", "unregisterModules"}) IN
        /\ Len(delegated) \in {1, 2}
        /\ Unmarked(delegated[1]) = Call("stop", "", <<>>, <<>>)
        /\ Len(delegated) = 1 => delegated[1].threw
        /\ Len(delegated) = 2 =>
              /\ ~delegated[1].threw
              /\ Unmarked(delegated[2]) = Call("unregisterModules", "", <<>>, <<>>)

\* removeModules(m1) looked up both marked elements of the subtree, found no
\* module, and delegated stop and unregisterModules with an empty collection
C19_Witness ==
    /\ op.name = "removeModules"
    /\ op.arg = NodeArg("m1")
    /\ Len(CallsTo({"getModuleById"})) = 2
    /\ ReturnedBy(CallsTo({"getModuleById"})) = <<>>
    /\ Len(CallsTo({"stop", "unregisterModules"})) = 2
    /\ ret = Returned("this", <<>>)

-----------------------------------------------------------------------------
(* C20 *)

\* C20: the scan of removeModules(n) covers n itself. When n carries the
\* name marker, the first lookup is made with the identifier of n, before
\* that of any descendant; when it resolves, the module of n is the first
\* entry of the collection that stop and unregisterModules receive, in
\* front of the modules of the descendants of n.
C20_RootIsScannedFirst ==
    (op.name = "removeModules" /\ InstanceofNode(op.arg)
                              /\ op.arg.node \in HasNameMarker) =>
        LET delegated == CallsTo({"stop", "unregisterModules"}) IN
        /\ calls # <<>>
        /\ calls[1].fn = "getModuleById"
        /\ calls[1].target = GetAttributeId(tid, op.arg.node)
        /\ calls[1].returned # <<>> =>
              /\ delegated # <<>>
              /\ \A k \in 1..Len(delegated) :
                    /\ delegated[k].mods # <<>>
                    /\ delegated[k].mods[1] = calls[1].returned[1]

\* removeModules(m1) collected the module of m1 and, behind it, the module
\* of its descendant m2
C20_Witness ==
    /\ op.name = "removeModules"
    /\ op.arg = NodeArg("m1")
    /\ ret.kind = "return"
    /\ tid["m1"] \in IdSet
    /\ tid["m2"] \in IdSet
    /\ calls[Len(calls)].mods = <<HandleOf[tid["m1"]], HandleOf[tid["m2"]]>>

====
